---------------------------- MODULE Spec2Model ----------------------------
(***************************************************************************)
(* A model of poibin.PoiBin (src/poibin.py): the construction of the        *)
(* Poisson binomial engine (input validation, the characteristic-function  *)
(* samples chi, the discrete Fourier transform, the realness check, the    *)
(* pmf and cdf vectors) and of its queries pmf, cdf and pval.              *)
(*                                                                         *)
(* Numbers.  The code computes in binary floating point.  The model        *)
(* computes in exact real arithmetic: a real number is (a + b*sqrt(root))/d*)
(* with integers a, b, d.  The probabilities are multiples of 1/2 and the  *)
(* transform sizes n + 1 are 1, 2, 3 and 4, the sizes for which every      *)
(* modulus, principal angle, cosine and sine the code takes is a number of *)
(* this form (root = 3 for n + 1 = 3, root = 2 otherwise).  Angles are     *)
(* counted in units of pi/12 and logarithms in units of ln(sqrt 2).        *)
(* The one place where the code inspects floating-point rounding, the      *)
(* imaginary parts of the transform output, carries a rounding residue in  *)
(* units of 1e-15 next to its exact value.                                 *)
(***************************************************************************)
EXTENDS Integers, Sequences, FiniteSets, TLC

\* ------------------------------------------------------------------ bounds

\* Longest batch query.
MaxBatch == 2
\* Largest rounding residue of an imaginary part, in units of 1e-15.
MaxResidue == 2
\* Largest magnitude of an element handed to get_cdf directly.
MaxX == 1

\* The engine sizes n (see the header): n + 1 divides 4, or is 3.
Sizes == {0, 1, 2, 3}
\* Input elements in halves: -1/2, 0, 1/2, 1, 3/2.
Halves == {-1, 0, 1, 2, 3}

\* ------------------------------------------------------- exact real numbers

Abs(x) == IF x < 0 THEN -x ELSE x

RECURSIVE Gcd(_, _)
Gcd(x, y) == IF y = 0 THEN x ELSE Gcd(y, x % y)

\* (a + b*sqrt(root))/d in lowest terms, d > 0.
R(a, b, d) ==
  LET g == Gcd(Gcd(Abs(a), Abs(b)), Abs(d))
      s == IF d < 0 THEN -1 ELSE 1
  IN  [a |-> (s * a) \div g, b |-> (s * b) \div g, d |-> (s * d) \div g]

Zero == R(0, 0, 1)
One == R(1, 0, 1)
Half(h) == R(h, 0, 2)

RAdd(x, y) == R(x.a * y.d + y.a * x.d, x.b * y.d + y.b * x.d, x.d * y.d)
RNeg(x) == R(-x.a, -x.b, x.d)
RSub(x, y) == RAdd(x, RNeg(y))
RMul(rt, x, y) == R(x.a * y.a + rt * x.b * y.b, x.a * y.b + x.b * y.a, x.d * y.d)
RDivInt(x, m) == R(x.a, x.b, x.d * m)

\* The sign of (a + b*sqrt(rt))/d: sqrt(rt) is irrational, so a*a = rt*b*b
\* only for a = b = 0.
RSign(rt, x) ==
  IF x.a >= 0 /\ x.b >= 0 THEN (IF x.a = 0 /\ x.b = 0 THEN 0 ELSE 1)
  ELSE IF x.a <= 0 /\ x.b <= 0 THEN -1
  ELSE IF x.a > 0 THEN (IF x.a * x.a > rt * x.b * x.b THEN 1 ELSE -1)
  ELSE (IF rt * x.b * x.b > x.a * x.a THEN 1 ELSE -1)

RLeq(rt, x, y) == RSign(rt, RSub(x, y)) <= 0

\* ---------------------------------------------------------- complex numbers

Cx(re, im) == [re |-> re, im |-> im]
CAdd(x, y) == Cx(RAdd(x.re, y.re), RAdd(x.im, y.im))
CMul(rt, x, y) ==
  Cx(RSub(RMul(rt, x.re, y.re), RMul(rt, x.im, y.im)),
     RAdd(RMul(rt, x.re, y.im), RMul(rt, x.im, y.re)))
CScale(rt, d, x) == Cx(RMul(rt, d, x.re), RMul(rt, d, x.im))
CDivInt(x, m) == Cx(RDivInt(x.re, m), RDivInt(x.im, m))
Conjugate(x) == Cx(x.re, RNeg(x.im))


\* ------------------------------------------------------------------- state

VARIABLES
  p,          \* self.p: the input as an array, [shape, data], data in halves
  n,          \* self.n: the number of elements of p
  pc,         \* the position of the construction
  err,        \* the exception the construction raised, or "none"
  steps,      \* the construction steps completed, in order
  chi,        \* get_pmf_xi's local array chi
  i,          \* get_pmf_xi's loop index
  writes,     \* per index of chi, the number of assignments to it
  chi_calls,  \* the arguments get_chi was called with, in order
  xi,         \* get_pmf_xi's local array xi
  pmf_list,   \* self.pmf_list
  cdf_list,   \* self.cdf_list
  call        \* per caller, the query it is in

vars ==
  <<p, n, pc, err, steps, chi, i, writes, chi_calls, xi, pmf_list, cdf_list, call>>

\* The irrational the engine's numbers are built on (see the header).
root == IF n + 1 = 3 THEN 3 ELSE 2

Mul(x, y) == RMul(root, x, y)
Sign(x) == RSign(root, x)

\* ------------------------------------------------------ elementary functions

\* A full turn, 2*pi, in units of pi/12.
Turn == 24

\* The angles, in units of pi/12, whose cosine and sine are numbers of the
\* engine: the multiples of pi/4 (root 2) or of pi/3 (root 3).
IsAngle(k) == IF root = 2 THEN k % 3 = 0 ELSE k % 4 = 0

\* np.cos and np.sin.  R(0, 1, 2) is sqrt(2)/2 for root 2 and sqrt(3)/2 for
\* root 3.
Cos(k) ==
  LET m == k % Turn
  IN  CASE m = 0 -> One
        [] m \in {3, 21} -> R(0, 1, 2)
        [] m \in {4, 20} -> R(1, 0, 2)
        [] m \in {6, 18} -> Zero
        [] m \in {8, 16} -> R(-1, 0, 2)
        [] m \in {9, 15} -> R(0, -1, 2)
        [] m = 12 -> R(-1, 0, 1)

Sin(k) ==
  LET m == k % Turn
  IN  CASE m \in {0, 12} -> Zero
        [] m \in {3, 9} -> R(0, 1, 2)
        [] m \in {4, 8} -> R(0, 1, 2)
        [] m = 6 -> One
        [] m \in {15, 21} -> R(0, -1, 2)
        [] m \in {16, 20} -> R(0, -1, 2)
        [] m = 18 -> R(-1, 0, 1)

\* The moduli the code takes: 0, 1/2, sqrt(root)/2 and 1.
Moduli == {Zero, R(1, 0, 2), R(0, 1, 2), One}

\* np.abs of a complex number: the non-negative square root of re^2 + im^2.
CAbs(z) ==
  LET sq == RAdd(Mul(z.re, z.re), Mul(z.im, z.im))
  IN  CHOOSE m \in Moduli : Mul(m, m) = sq

\* Logarithms, in units of ln(sqrt 2): an integer, or minus infinity.
Fin(v) == [inf |-> FALSE, v |-> v]
NegInf == [inf |-> TRUE, v |-> 0]
LogAdd(x, y) == IF x.inf \/ y.inf THEN NegInf ELSE Fin(x.v + y.v)

\* np.exp: sqrt(2)^h for h <= 0, and exp(-inf) = 0.  An odd h arises for
\* root 2 only.
RECURSIVE PowSqrt2(_)
PowSqrt2(h) ==
  IF h = 0 THEN One
  ELSE IF h = -1 THEN R(0, 1, 2)
  ELSE RDivInt(PowSqrt2(h + 2), 2)

Exp(x) == IF x.inf THEN Zero ELSE PowSqrt2(x.v)

\* np.log of a modulus: the inverse of Exp, and log(0) = -inf.
Log(m) ==
  IF m = Zero THEN NegInf
  ELSE Fin(CHOOSE h \in {-2, -1, 0} : (h = -1 => root = 2) /\ PowSqrt2(h) = m)

\* np.arctan2(y, x): the principal angle t in (-pi, pi] with
\* x = r*cos(t), y = r*sin(t), r = |x + iy|; arctan2(0, 0) = 0.
ArcTan2(y, x) ==
  LET r == CAbs(Cx(x, y))
  IN  IF r = Zero THEN 0
      ELSE CHOOSE t \in -11..12 :
             IsAngle(t) /\ x = Mul(r, Cos(t)) /\ y = Mul(r, Sin(t))

\* Sums over j = 1..m.
RECURSIVE SumInt(_, _)
SumInt(F(_), m) == IF m = 0 THEN 0 ELSE SumInt(F, m - 1) + F(m)

RECURSIVE SumLog(_, _)
SumLog(F(_), m) == IF m = 0 THEN Fin(0) ELSE LogAdd(SumLog(F, m - 1), F(m))

RECURSIVE SumCx(_, _)
SumCx(F(_), m) == IF m = 0 THEN Cx(Zero, Zero) ELSE CAdd(SumCx(F, m - 1), F(m))

\* -------------------------------------------------- the characteristic function

\* self.p[j - 1], j = 1..n.
P(j) == Half(p.data[j])

\* self.omega = 2*pi/(n + 1), in units of pi/12.
omega == Turn \div (n + 1)

get_z(j, idx) ==
  Cx(RAdd(RSub(One, P(j)), Mul(P(j), Cos(omega * idx))),
     Mul(P(j), Sin(omega * idx)))

get_argz_sum(idx) ==
  LET y(j) == Mul(P(j), Sin(omega * idx))
      x(j) == RAdd(RSub(One, P(j)), Mul(P(j), Cos(omega * idx)))
      argz(j) == ArcTan2(y(j), x(j))
  IN  SumInt(argz, n)

get_d(idx) ==
  LET logabs(j) == Log(CAbs(get_z(j, idx)))
      exparg == SumLog(logabs, n)
  IN  Exp(exparg)

get_chi(idx) ==
  LET argz_sum == get_argz_sum(idx)
      d == get_d(idx)
  IN  CScale(root, d, Cx(Cos(argz_sum), Sin(argz_sum)))

\* ------------------------------------------------------------- construction

\* np.array(p).shape for the inputs of the model: a scalar, a list, or a
\* nested list holding one row or one column.
Shapes(m) ==
  {<<m>>} \cup (IF m = 1 THEN {<< >>} ELSE {})
          \cup (IF m >= 1 THEN {<<1, m>>, <<m, 1>>} ELSE {})

SeqsOf(S, m) == UNION {[1..k -> S] : k \in 0..m}

Inputs ==
  UNION {{[shape |-> sh, data |-> d] : sh \in Shapes(Len(d))} :
           d \in UNION {[1..k -> Halves] : k \in Sizes}}

\* check_input_prob with p > 0 for p >= 0.
check_input_prob_strict ==
  IF p.shape # <<n>> THEN "ValueError: one-dimensional"
  ELSE IF ~(\A j \in 1..n : Sign(P(j)) > 0) THEN "ValueError: non negative"
  ELSE IF ~(\A j \in 1..n : RLeq(root, P(j), One)) THEN "ValueError: smaller than 1"
  ELSE "ok"

\* check_input_prob: "ok", or the ValueError it raises.
check_input_prob ==
  IF p.shape # <<n>> THEN "ValueError: one-dimensional"
  ELSE IF ~(\A j \in 1..n : Sign(P(j)) >= 0) THEN "ValueError: non negative"
  ELSE IF ~(\A j \in 1..n : RLeq(root, P(j), One)) THEN "ValueError: smaller than 1"
  ELSE "ok"

\* half_n without the + self.n % 2.
half_n_floor == n \div 2

\* int(self.n / 2 + self.n % 2): n / 2 is a true division, int() truncates.
half_n == (n + 2 * (n % 2)) \div 2

\* fft with the sign of the exponent changed (the inverse transform's).
fft_inverse_sign(a) ==
  LET len == Cardinality(DOMAIN a)
      w == Turn \div len
      term(k, m) == CMul(root, a[m], Cx(Cos(w * m * k), Sin(w * m * k)))
  IN  [k \in DOMAIN a |->
         LET t(m) == term(k, m) IN CAdd(t(0), SumCx(t, len - 1))]

\* np.fft.fft(a)[k] = sum over m of a[m] * exp(-2*pi*i*m*k/len(a)).
fft(a) ==
  LET len == Cardinality(DOMAIN a)
      w == Turn \div len
      term(k, m) == CMul(root, a[m], Cx(Cos(w * m * k), RNeg(Sin(w * m * k))))
  IN  [k \in DOMAIN a |->
         LET t(m) == term(k, m) IN CAdd(t(0), SumCx(t, len - 1))]

\* eps = 1e-15, in units of 1e-15.
eps == 1

\* xx.imag <= eps for one element: the exact part of the imaginary part
\* decides unless it is zero, and then the rounding residue does.
imag_leq_eps(x) == Sign(x.im) < 0 \/ (Sign(x.im) = 0 /\ x.res <= eps)

check_xi_are_real(xx) == \A k \in DOMAIN xx : imag_leq_eps(xx[k])

\* get_cdf adding xx[i - 1] for xx[i].
get_cdf_shifted(xx) ==
  LET c[k \in 0..n] == IF k = 0 THEN xx[0] ELSE RAdd(c[k - 1], xx[k - 1])
  IN  c

get_cdf(xx) ==
  LET c[k \in 0..n] == IF k = 0 THEN xx[0] ELSE RAdd(c[k - 1], xx[k])
  IN  c

Idle ==
  [st |-> "idle", op |-> "none", q |-> << >>, ret |-> << >>, reads |-> << >>,
   msg |-> "none"]

Callers == {"a", "b"}

Init ==
  /\ p \in Inputs
  /\ n = Len(p.data)
  /\ pc = "check_input"
  /\ err = "none"
  /\ steps = << >>
  /\ chi = << >>
  /\ i = 0
  /\ writes = << >>
  /\ chi_calls = << >>
  /\ xi = << >>
  /\ pmf_list = << >>
  /\ cdf_list = << >>
  /\ call = [c \in Callers |-> Idle]

\* Validate with the result of check_input_prob ignored.
ValidateNoRaise ==
  /\ pc = "check_input"
  /\ pc' = "chi_alloc" /\ err' = err /\ steps' = Append(steps, "validate")
  /\ UNCHANGED <<p, n, chi, i, writes, chi_calls, xi, pmf_list, cdf_list, call>>

\* __init__, line 53: self.check_input_prob().
Validate ==
  /\ pc = "check_input"
  /\ IF check_input_prob = "ok"
       THEN pc' = "chi_alloc" /\ err' = err /\ steps' = Append(steps, "validate")
       ELSE pc' = "failed" /\ err' = check_input_prob /\ steps' = steps
  /\ UNCHANGED <<p, n, chi, i, writes, chi_calls, xi, pmf_list, cdf_list, call>>

\* What an entry of np.empty holds in the model until it is assigned; writes
\* tells whether it was.
Unset == Cx(Zero, Zero)

\* get_pmf_xi, lines 131-133: chi = np.empty(n + 1); chi[0] = 1.
ChiAlloc ==
  /\ pc = "chi_alloc"
  /\ chi' = [l \in 0..n |-> IF l = 0 THEN Cx(One, Zero) ELSE Unset]
  /\ writes' = [l \in 0..n |-> IF l = 0 THEN 1 ELSE 0]
  /\ i' = 1
  /\ pc' = "chi_loop"
  /\ UNCHANGED <<p, n, err, steps, chi_calls, xi, pmf_list, cdf_list, call>>

\* lines 135-136: for i in range(1, half_n + 1): chi[i] = self.get_chi(i).
ChiLoop ==
  /\ pc = "chi_loop"
  /\ i <= half_n
  /\ chi' = [chi EXCEPT ![i] = get_chi(i)]
  /\ writes' = [writes EXCEPT ![i] = @ + 1]
  /\ chi_calls' = Append(chi_calls, i)
  /\ i' = i + 1
  /\ UNCHANGED <<p, n, pc, err, steps, xi, pmf_list, cdf_list, call>>

\* The element at position t of chi[1:n - half_n + 1][::-1].
mirror_source(t) == (n - half_n) - t

\* lines 138-139: chi[half_n + 1:n + 1] = np.conjugate(chi[1:n - half_n + 1][::-1]).
ChiMirror ==
  /\ pc = "chi_loop"
  /\ i > half_n
  /\ chi' = [l \in 0..n |->
               IF l >= half_n + 1
                 THEN Conjugate(chi[mirror_source(l - (half_n + 1))])
                 ELSE chi[l]]
  /\ writes' = [l \in 0..n |-> IF l >= half_n + 1 THEN writes[l] + 1 ELSE writes[l]]
  /\ pc' = "chi_norm"
  /\ UNCHANGED <<p, n, err, steps, i, chi_calls, xi, pmf_list, cdf_list, call>>

\* line 140: chi /= self.n + 1.
ChiNormalize ==
  /\ pc = "chi_norm"
  /\ chi' = [l \in 0..n |-> CDivInt(chi[l], n + 1)]
  /\ steps' = Append(steps, "chi")
  /\ pc' = "fft"
  /\ UNCHANGED <<p, n, err, i, writes, chi_calls, xi, pmf_list, cdf_list, call>>

\* line 141: xi = np.fft.fft(chi).  Each imaginary part carries a rounding
\* residue.
Transform ==
  /\ pc = "fft"
  /\ \E f \in {fft(chi)}, res \in [0..n -> -MaxResidue..MaxResidue] :
           xi' = [k \in 0..n |-> [re |-> f[k].re, im |-> f[k].im, res |-> res[k]]]
  /\ steps' = Append(steps, "transform")
  /\ pc' = "check_real"
  /\ UNCHANGED <<p, n, err, chi, i, writes, chi_calls, pmf_list, cdf_list, call>>

\* lines 142-146: take the real parts, or raise TypeError.
CheckReal ==
  /\ pc = "check_real"
  /\ IF check_xi_are_real(xi)
       THEN /\ xi' = [k \in 0..n |-> xi[k].re]
            /\ steps' = Append(steps, "realness")
            /\ pc' = "store_pmf"
            /\ err' = err
       ELSE /\ xi' = xi
            /\ steps' = steps
            /\ pc' = "failed"
            /\ err' = "TypeError: real"
  /\ UNCHANGED <<p, n, chi, i, writes, chi_calls, pmf_list, cdf_list, call>>

\* __init__, line 55: self.pmf_list = self.get_pmf_xi(); the locals are gone.
StorePmf ==
  /\ pc = "store_pmf"
  /\ pmf_list' = xi
  /\ chi' = << >> /\ xi' = << >> /\ i' = 0
  /\ steps' = Append(steps, "store_pmf")
  /\ pc' = "store_cdf"
  /\ UNCHANGED <<p, n, err, writes, chi_calls, cdf_list, call>>

\* __init__, line 56: self.cdf_list = self.get_cdf(self.pmf_list).
StoreCdf ==
  /\ pc = "store_cdf"
  /\ cdf_list' = get_cdf(pmf_list)
  /\ steps' = Append(steps, "store_cdf")
  /\ pc' = "ready"
  /\ UNCHANGED <<p, n, err, chi, i, writes, chi_calls, xi, pmf_list, call>>

Construct ==
  \/ Validate
  \/ ChiAlloc
  \/ ChiLoop
  \/ ChiMirror
  \/ ChiNormalize
  \/ Transform
  \/ CheckReal
  \/ StorePmf
  \/ StoreCdf

\* ------------------------------------------------------------------ queries

\* The types of the integral values of a query: int, numpy.int64,
\* numpy.int32, float.  A value is counted in halves; 3 is the float 1.5.
Types == {"int", "int64", "int32", "float"}
Values == {2 * k : k \in -1..(n + 1)} \cup {3}

\* A query: a scalar, or a list whose integral values have one type.
Queries(maxlen) ==
  {q \in [kind : {"scalar"}, t : Types, v : Values] : q.v % 2 = 1 => q.t = "float"}
    \cup [kind : {"batch"}, t : Types, v : SeqsOf(Values, maxlen)]

\* type(k) of a value of the query.
type(q, v) == IF v % 2 = 1 THEN "float" ELSE q.t

\* The three asserts on one value: "ok", or the assertion that fails.
check_value(q, v) ==
  IF ~(type(q, v) = "int" \/ type(q, v) = "int64") THEN "AssertionError: integer"
  ELSE IF ~(v >= 0) THEN "AssertionError: negative"
  ELSE IF ~(v <= 2 * n) THEN "AssertionError: greater than n"
  ELSE "ok"

\* check_rv_input(kk): the first assertion that fails, in the order of the
\* values; iterating over a scalar raises the TypeError that is caught.
check_rv_input(q) ==
  IF q.kind = "batch"
    THEN IF \A j \in 1..Len(q.v) : check_value(q, q.v[j]) = "ok"
           THEN "ok"
           ELSE LET j == CHOOSE j \in 1..Len(q.v) :
                           /\ check_value(q, q.v[j]) # "ok"
                           /\ \A h \in 1..(j - 1) : check_value(q, q.v[h]) = "ok"
                IN  check_value(q, q.v[j])
    ELSE check_value(q, q.v)

\* The integer query value k as a query, and as an index.
Scalar(t, k) == [kind |-> "scalar", t |-> t, v |-> 2 * k]
Index(v) == v \div 2

\* a[k] for a numpy array a of length n + 1: a negative k counts from the end.
Item(a, k) == IF k < 0 THEN a[k + n + 1] ELSE a[k]

\* What a call gives: a value and the reads of the vectors it took, or an
\* exception.
Ret(val, reads) == [exc |-> "none", val |-> val, reads |-> reads]
Raise(exc) == [exc |-> exc, val |-> << >>, reads |-> << >>]

\* Lookup giving the elements of a list query in reverse order.
LookupReversed(name, a, q) ==
  IF q.kind = "batch"
    THEN Ret([j \in 1..Len(q.v) |-> Item(a, Index(q.v[Len(q.v) + 1 - j]))],
             [j \in 1..Len(q.v) |-> <<name, Index(q.v[j])>>])
    ELSE Ret(Item(a, Index(q.v)), <<<<name, Index(q.v)>>>>)

\* self.pmf_list[kk] and self.cdf_list[kk]: one element, or one per index.
Lookup(name, a, q) ==
  IF q.kind = "batch"
    THEN Ret([j \in 1..Len(q.v) |-> Item(a, Index(q.v[j]))],
             [j \in 1..Len(q.v) |-> <<name, Index(q.v[j])>>])
    ELSE Ret(Item(a, Index(q.v)), <<<<name, Index(q.v)>>>>)

\* pmf and cdf, lines 69-70 and 80-81.
pmf(q) ==
  IF check_rv_input(q) # "ok" THEN Raise(check_rv_input(q))
  ELSE Lookup("pmf", pmf_list, q)

cdf(q) ==
  IF check_rv_input(q) # "ok" THEN Raise(check_rv_input(q))
  ELSE Lookup("cdf", cdf_list, q)

\* pval with 1 - cdf(kk) for the scalar 1 - cdf(kk - 1).
pval_body_off_by_one(q) ==
  IF q.kind = "batch"
    THEN Ret([j \in 1..Len(q.v) |->
                RAdd(RSub(One, Item(cdf_list, Index(q.v[j]))),
                     Item(pmf_list, Index(q.v[j])))],
             [j \in 1..(2 * Len(q.v)) |->
                <<IF j % 2 = 1 THEN "cdf" ELSE "pmf", Index(q.v[(j + 1) \div 2])>>])
    ELSE IF Index(q.v) = 0
           THEN Ret(One, << >>)
           ELSE Ret(RSub(One, Item(cdf_list, Index(q.v))),
                    <<<<"cdf", Index(q.v)>>>>)

\* pval after its check, lines 97-111.  A list: fk[i] = 1. - cdf(k) + pmf(k)
\* per value.  A scalar: 1 for 0, else 1 - cdf(kk - 1).
pval_body(q) ==
  IF q.kind = "batch"
    THEN LET c(j) == cdf(Scalar(q.t, Index(q.v[j])))
             m(j) == pmf(Scalar(q.t, Index(q.v[j])))
             bad == {j \in 1..Len(q.v) : c(j).exc # "none" \/ m(j).exc # "none"}
         IN  IF bad # {}
               THEN LET j == CHOOSE j \in bad : \A h \in bad : j <= h
                    IN  Raise(IF c(j).exc # "none" THEN c(j).exc ELSE m(j).exc)
               ELSE Ret([j \in 1..Len(q.v) |->
                           RAdd(RSub(One, c(j).val), m(j).val)],
                        [j \in 1..(2 * Len(q.v)) |->
                           IF j % 2 = 1 THEN c((j + 1) \div 2).reads[1]
                                        ELSE m(j \div 2).reads[1]])
    ELSE IF Index(q.v) = 0
           THEN Ret(One, << >>)
           ELSE LET c == cdf(Scalar(q.t, Index(q.v) - 1))
                IN  IF c.exc # "none" THEN Raise(c.exc)
                    ELSE Ret(RSub(One, c.val), c.reads)

\* The body of a query method after its call of check_rv_input.
body(op, q) ==
  CASE op = "pmf" -> Lookup("pmf", pmf_list, q)
    [] op = "cdf" -> Lookup("cdf", cdf_list, q)
    [] op = "pval" -> pval_body(q)

Ops == {"pmf", "cdf", "pval"}

\* A caller enters pmf, cdf or pval: the method runs check_rv_input first.
Begin(c, op, q) ==
  /\ pc = "ready"
  /\ call[c].st = "idle"
  /\ call' = [call EXCEPT ![c] =
       IF check_rv_input(q) = "ok"
         THEN [Idle EXCEPT !.st = "checked", !.op = op, !.q = q]
         ELSE [Idle EXCEPT !.st = "raised", !.op = op, !.q = q,
                           !.msg = check_rv_input(q)]]
  /\ UNCHANGED <<p, n, pc, err, steps, chi, i, writes, chi_calls, xi, pmf_list,
                 cdf_list>>

\* Finish computing 1 - cdf in place, in self.cdf_list.
FinishInPlace(c) ==
  /\ call[c].st = "checked"
  /\ LET r == body(call[c].op, call[c].q)
     IN  call' = [call EXCEPT ![c] =
           IF r.exc = "none"
             THEN [@ EXCEPT !.st = "done", !.ret = r.val, !.reads = r.reads]
             ELSE [@ EXCEPT !.st = "raised", !.msg = r.exc]]
  /\ cdf_list' = IF call[c].op = "pval"
                   THEN [k \in 0..n |-> RSub(One, cdf_list[k])]
                   ELSE cdf_list
  /\ UNCHANGED <<p, n, pc, err, steps, chi, i, writes, chi_calls, xi, pmf_list>>

\* The rest of the method: the lookups and the result.
Finish(c) ==
  /\ call[c].st = "checked"
  /\ LET r == body(call[c].op, call[c].q)
     IN  call' = [call EXCEPT ![c] =
           IF r.exc = "none"
             THEN [@ EXCEPT !.st = "done", !.ret = r.val, !.reads = r.reads]
             ELSE [@ EXCEPT !.st = "raised", !.msg = r.exc]]
  /\ UNCHANGED <<p, n, pc, err, steps, chi, i, writes, chi_calls, xi, pmf_list,
                 cdf_list>>

\* The caller has its result, or has caught the exception.
Return(c) ==
  /\ call[c].st \in {"done", "raised"}
  /\ call' = [call EXCEPT ![c] = Idle]
  /\ UNCHANGED <<p, n, pc, err, steps, chi, i, writes, chi_calls, xi, pmf_list,
                 cdf_list>>

\* The sequences get_cdf is handed directly: n + 1 small integers.
Vectors == [0..n -> {R(v, 0, 1) : v \in -MaxX..MaxX}]

\* A direct call of get_cdf(xx).
GetCdf(c, xx) ==
  /\ pc = "ready"
  /\ call[c].st = "idle"
  /\ call' = [call EXCEPT ![c] =
       [Idle EXCEPT !.st = "done", !.op = "get_cdf", !.q = xx, !.ret = get_cdf(xx)]]
  /\ UNCHANGED <<p, n, pc, err, steps, chi, i, writes, chi_calls, xi, pmf_list,
                 cdf_list>>

\* A caller calls one of pmf, cdf and pval with one of the queries qs.
Query(c, qs) ==
  /\ pc = "ready"
  /\ call[c].st = "idle"
  /\ \E op \in Ops, q \in qs : Begin(c, op, q)

\* A caller calls get_cdf directly.
CallGetCdf(c) ==
  /\ pc = "ready"
  /\ call[c].st = "idle"
  /\ \E xx \in Vectors : GetCdf(c, xx)

\* The arrays check_xi_are_real is handed directly: two elements with real
\* part 1 and imaginary part -99, 0 or 99 plus a residue (test_poibin.py,
\* lines 235-238).
Arrays ==
  [0..1 -> {[re |-> One, im |-> R(v, 0, 1), res |-> r] :
              v \in {-99, 0, 99}, r \in -MaxResidue..MaxResidue}]

\* A direct call of the static method check_xi_are_real(xx).
CallCheckXiAreReal(c) ==
  /\ pc = "ready"
  /\ call[c].st = "idle"
  /\ \E xx \in Arrays :
       call' = [call EXCEPT ![c] =
         [Idle EXCEPT !.st = "done", !.op = "check_xi_are_real", !.q = xx,
                      !.ret = check_xi_are_real(xx)]]
  /\ UNCHANGED <<p, n, pc, err, steps, chi, i, writes, chi_calls, xi, pmf_list,
                 cdf_list>>

\* One caller, every query.
Next ==
  \/ Construct
  \/ Query("a", Queries(MaxBatch))
  \/ Finish("a")
  \/ Return("a")
  \/ CallGetCdf("a")
  \/ CallCheckXiAreReal("a")

Spec == Init /\ [][Next]_vars

\* Two callers whose queries interleave; the queries are scalars and lists of
\* at most one value, of type int.
NarrowQueries == {q \in Queries(1) : q.t = "int"}

NextMulti ==
  \/ Construct
  \/ \E c \in Callers : Query(c, NarrowQueries)
  \/ \E c \in Callers : Finish(c)
  \/ \E c \in Callers : Return(c)

SpecMulti == Init /\ [][NextMulti]_vars


\* ----------------------------------------------------------------- properties

\* The Poisson binomial distribution by iterated convolution of the n
\* Bernoulli distributions: Conv(j, k) / 2^j is the probability of k
\* successes among the first j trials.
RECURSIVE Conv(_, _)
Conv(j, k) ==
  IF j = 0 THEN (IF k = 0 THEN 1 ELSE 0)
  ELSE Conv(j - 1, k) * (2 - p.data[j])
         + (IF k > 0 THEN Conv(j - 1, k - 1) * p.data[j] ELSE 0)

RECURSIVE Pow2(_)
Pow2(m) == IF m = 0 THEN 1 ELSE 2 * Pow2(m - 1)

Pr(k) == R(Conv(n, k), 0, Pow2(n))

\* The sum of a[0..k].
RECURSIVE SumUpTo(_, _)
SumUpTo(a, k) == IF k < 0 THEN Zero ELSE RAdd(SumUpTo(a, k - 1), a[k])

\* C1: once construction has stored the pmf vector, it has the n + 1
\* elements 0..n, element k is the exact Poisson binomial probability
\* Pr(X = k), and the elements sum to 1.
C1_PmfIsExact ==
  pc \in {"store_cdf", "ready"} =>
    /\ DOMAIN pmf_list = 0..n
    /\ \A k \in 0..n : pmf_list[k] = Pr(k)
    /\ SumUpTo(pmf_list, n) = One

\* p = (1/2, 1, 1/2): Pr(X = 0..3) = 0, 1/4, 1/2, 1/4.
C1_Witness ==
  /\ pc = "ready"
  /\ p.data = <<1, 2, 1>>
  /\ pmf_list = [k \in 0..3 |-> IF k = 0 THEN Zero ELSE IF k = 2 THEN R(1, 0, 2)
                                                   ELSE R(1, 0, 4)]

\* The integer queries the check lets through.
ValidInt(q, v) == q.t \in {"int", "int64"} /\ v % 2 = 0 /\ 0 <= v /\ v <= 2 * n

\* C2: a scalar pval(k) with a valid integer k returns exactly 1 for k = 0
\* and 1 - cdf(k - 1) for k >= 1, and no pval reads the cdf vector at an
\* index outside 0..n.
C2_Pval ==
  \A c \in Callers :
    call[c].op = "pval" =>
      /\ (call[c].q.kind = "scalar" /\ ValidInt(call[c].q, call[c].q.v)) =>
           /\ call[c].st # "raised"
           /\ call[c].st = "done" =>
                LET k == Index(call[c].q.v)
                IN  /\ k = 0 => call[c].ret = One
                    /\ k >= 1 => call[c].ret = RSub(One, cdf_list[k - 1])
      /\ \A j \in DOMAIN call[c].reads :
           call[c].reads[j][1] = "cdf" => call[c].reads[j][2] \in 0..n

\* p = (1/2, 1/2): pval(1) = 1 - cdf(0) = 3/4.
C2_Witness ==
  /\ call["a"].st = "done"
  /\ call["a"].op = "pval"
  /\ call["a"].q.kind = "scalar"
  /\ Index(call["a"].q.v) = 1
  /\ call["a"].ret = R(3, 0, 4)
  /\ call["a"].reads = <<<<"cdf", 0>>>>

\* A value the claim lets fail: one that is no integer (a float), negative,
\* or greater than n.
Invalid(q, v) == type(q, v) = "float" \/ v < 0 \/ v > 2 * n
SomeInvalid(q) ==
  IF q.kind = "batch" THEN \E j \in 1..Len(q.v) : Invalid(q, q.v[j])
  ELSE Invalid(q, q.v)

\* C3: pmf, cdf and pval fail if and only if some value of the query is no
\* integer, is negative or is greater than n, and they fail before any
\* lookup into the vectors.
C3_FailsIffInvalid ==
  \A c \in Callers :
    call[c].op \in Ops =>
      /\ call[c].st = "raised" => (SomeInvalid(call[c].q) /\ call[c].reads = << >>)
      /\ call[c].st \in {"checked", "done"} => ~SomeInvalid(call[c].q)

\* The shape is one-dimensional and every element is in [0, 1].
OneDimensional == Len(p.shape) = 1
InRange == \A j \in 1..n : 0 <= p.data[j] /\ p.data[j] <= 2

\* C4: construction fails with a ValueError if and only if the input is not
\* one-dimensional or an element is below 0 or above 1, and then no vector
\* is stored.
C4_InputValidation ==
  pc # "check_input" =>
    /\ (pc = "failed" /\ err \in {"ValueError: one-dimensional",
                                  "ValueError: non negative",
                                  "ValueError: smaller than 1"})
         <=> ~(OneDimensional /\ InRange)
    /\ ~(OneDimensional /\ InRange) => (pmf_list = << >> /\ cdf_list = << >>)

\* The boundary values 0 and 1 pass.
C4_Witness ==
  /\ pc = "chi_alloc"
  /\ p.data = <<0, 2, 1>>
  /\ steps = <<"validate">>

\* |imag| <= eps for one element of the transform output.
WithinTolerance(x) == Sign(x.im) = 0 /\ -eps <= x.res /\ x.res <= eps

\* C5: check_xi_are_real, the check construction applies to the transform
\* output, accepts an array only if every imaginary part is within 1e-15
\* of zero, whether the part is positive or negative.
C5_RealnessIsTwoSided ==
  \A c \in Callers :
    (call[c].st = "done" /\ call[c].op = "check_xi_are_real") =>
      (call[c].ret <=> \A k \in DOMAIN call[c].q : WithinTolerance(call[c].q[k]))

\* The results of the scalar queries on a valid integer k.
ScalarPmf(k) == pmf_list[k]
ScalarCdf(k) == cdf_list[k]
ScalarPval(k) == IF k = 0 THEN One ELSE RSub(One, cdf_list[k - 1])

\* C6: a batch query of valid integers returns one element per value, in
\* the order of the values, each the result of the scalar query.
C6_BatchIsElementwise ==
  \A c \in Callers :
    (call[c].st = "done" /\ call[c].op \in Ops /\ call[c].q.kind = "batch") =>
      LET q == call[c].q
      IN  /\ DOMAIN call[c].ret = 1..Len(q.v)
          /\ \A j \in 1..Len(q.v) :
               call[c].ret[j] =
                 CASE call[c].op = "pmf" -> ScalarPmf(Index(q.v[j]))
                   [] call[c].op = "cdf" -> ScalarCdf(Index(q.v[j]))
                   [] call[c].op = "pval" -> ScalarPval(Index(q.v[j]))

\* p = (1/2, 1/2): pval([2, 0]) = [1/4, 1].
C6_Witness ==
  /\ call["a"].st = "done"
  /\ call["a"].op = "pval"
  /\ call["a"].q.kind = "batch"
  /\ call["a"].q.v = <<4, 0>>
  /\ call["a"].ret = <<R(1, 0, 4), One>>

\* C7: get_cdf(xx) has the n + 1 elements 0..n, element k is
\* xx[0] + ... + xx[k]; with no negative element it is non-decreasing and
\* its last element is the sum of xx.  The stored cdf vector is get_cdf of
\* the stored pmf vector.
C7_CdfIsPrefixSum ==
  /\ \A c \in Callers :
       (call[c].st = "done" /\ call[c].op = "get_cdf") =>
         LET xx == call[c].q
             cc == call[c].ret
         IN  /\ DOMAIN cc = 0..n
             /\ \A k \in 0..n : cc[k] = SumUpTo(xx, k)
             /\ (\A k \in 0..n : Sign(xx[k]) >= 0) =>
                  /\ \A k \in 1..n : RLeq(root, cc[k - 1], cc[k])
                  /\ cc[n] = SumUpTo(xx, n)
  /\ pc = "ready" =>
       /\ DOMAIN cdf_list = 0..n
       /\ \A k \in 0..n : cdf_list[k] = SumUpTo(pmf_list, k)
       /\ \A k \in 1..n : RLeq(root, cdf_list[k - 1], cdf_list[k])

\* get_cdf([1, 1, 1]) = [1, 2, 3] on an engine with n = 2.
C7_Witness ==
  /\ n = 2
  /\ call["a"].st = "done"
  /\ call["a"].op = "get_cdf"
  /\ call["a"].q = [k \in 0..2 |-> One]
  /\ call["a"].ret = [k \in 0..2 |-> R(k + 1, 0, 1)]

SameQuery(q, r) == q.kind = r.kind /\ q.t = r.t /\ q.v = r.v

\* C8: once the engine is ready no step of any caller, a failing query
\* included, changes p, n, the pmf vector or the cdf vector, and two calls of
\* the same query have the same result.
C8_QueriesChangeNothing ==
  /\ [][pc = "ready" => UNCHANGED <<p, n, pc, pmf_list, cdf_list>>]_vars
  /\ [](\A c, d \in Callers :
          (/\ call[c].st = "done" /\ call[d].st = "done"
           /\ call[c].op = call[d].op /\ SameQuery(call[c].q, call[d].q))
            => call[c].ret = call[d].ret)
  /\ [](\A c \in Callers :
          call[c].st = "done" =>
            call[c].ret = body(call[c].op, call[c].q).val)

\* Two callers have the result of the same query while the engine holds the
\* vectors it was built with.
C8_Witness ==
  /\ call["a"].st = "done" /\ call["b"].st = "done"
  /\ call["a"].op = "pval" /\ call["b"].op = "pval"
  /\ SameQuery(call["a"].q, call["b"].q)
  /\ call["a"].q.kind = "batch" /\ Len(call["a"].q.v) = 1
  /\ call["a"].ret = <<R(3, 0, 4)>>

Order == <<"validate", "chi", "transform", "realness", "store_pmf", "store_cdf">>

\* C9: the construction steps run in the order validate, chi, transform,
\* realness, store pmf, store cdf; an engine is ready only after all six,
\* with a valid input and both vectors in place; a failed construction
\* stores nothing and never becomes ready, and a ready engine stays ready.
C9_ConstructionOrder ==
  /\ [](/\ Len(steps) <= Len(Order)
        /\ steps = SubSeq(Order, 1, Len(steps))
        /\ Len(steps) >= 1 => (OneDimensional /\ InRange)
        /\ pc = "ready" <=> steps = Order
        /\ pc = "ready" => (DOMAIN pmf_list = 0..n /\ DOMAIN cdf_list = 0..n)
        /\ pc = "failed" => (err # "none" /\ pmf_list = << >> /\ cdf_list = << >>)
        /\ pc # "ready" => \A c \in Callers : call[c] = Idle)
  /\ [][/\ pc = "ready" => pc' = "ready"
        /\ pc = "failed" => pc' = "failed"
        /\ (pc = "check_real" /\ pc' # "failed") => check_xi_are_real(xi)]_vars

C9_Witness ==
  /\ pc = "ready"
  /\ steps = Order
  /\ n = 3
  /\ call["a"].st = "done"

\* ceil(n / 2).
Ceil2(m) == CHOOSE h \in 0..m : 2 * h >= m /\ 2 * (h - 1) < m

=============================================================================
